---- MODULE Spec2Model ----
(***************************************************************************)
(* edw.djutils: protected views (permission-checking metaclass, object     *)
(* permissions, file view), wild_reverse and the management ProgressMixin. *)
(*                                                                         *)
(* Four specifications share the variables; each one drives one component  *)
(* and keeps the others at rest:                                           *)
(*   SpecDispatch  protected/views.py  ProtectedViewBase, ProtectedView,   *)
(*                                     ProtectedObjectMixin                *)
(*   SpecFile      protected/views.py  ProtectedFileView.get               *)
(*   SpecReverse   urlresolvers.py     wild_reverse                        *)
(*   SpecProgress  management/mixins.py ProgressMixin                      *)
(***************************************************************************)
EXTENDS Integers, Sequences, FiniteSets, TLC

\* ------------------------------------------------------------------ bounds
\* classes defined with the metaclass besides ProtectedView itself
MaxClasses == 2
\* length of permission_classes
MaxPerms == 2
\* length of a file path or of a filename/filepath kwarg, in characters
MaxPathLen == 3
\* url patterns registered under the view name
MaxCandidates == 2
\* largest item count handed to progress()
MaxTotal == 3
\* writes to the error stream that are followed
MaxWrites == 2

\* Python's None / an attribute that is not set / nothing returned yet
None == "None"
\* Python's True and False where the value may also be missing
Bool(b) == IF b THEN "True" ELSE "False"

\* --- protected views: classes and one request on a view instance
VARIABLES
    classes,              \* classes built by ProtectedViewBase.__new__, in order
    pc,                   \* where the request is
    viewCls,              \* type(self): index into classes
    perms,                \* what each permission of permission_classes answers
    permissions_checked,  \* self._permissions_checked (absent reads as FALSE)
    fn,                   \* the dispatch function being called
    hasCalls,             \* has_permission() calls made so far
    objCalls,             \* has_object_permission() calls made so far
    getObjectCalls,       \* get_object() calls made so far
    baseResult,           \* what ProtectedView.check_permissions returned
    checkResult,          \* what self.check_permissions(request) returned
    origRan,              \* owners of the original dispatch() bodies that ran
    result                \* what the outermost dispatch() call returned / raised

\* --- ProtectedFileView.get: one GET/HEAD on a file view
VARIABLES
    fPc,           \* where get() is
    fKwargs,       \* the view kwargs: a function on a subset of {"filename", "filepath"}
    fPath,         \* what get_file_path() returns (NoPath for None)
    fDebug,        \* settings.DEBUG
    fDisposition,  \* self.content_disposition
    fStorage,      \* whether self.storage is set
    fLookups,      \* get_file_path() calls made so far
    fResponse,     \* the response under construction / returned
    fRaised        \* the exception get() raised, if any

\* --- wild_reverse: one url configuration, one call
VARIABLES
    rCandidates,   \* reverse_dict.getlist(name) of the registered view name
    rViewname,     \* the viewname argument, split at ':'
    rKwargs,       \* the kwargs argument
    rOkKwargs,     \* the kwargs handed on to _reverse_with_prefix
    rResult        \* what the call returned or raised

\* --- ProgressMixin on a management command
VARIABLES
    no_progress,   \* self.no_progress
    stderr,        \* what was written to sys.stderr, in order
    pDelegated,    \* the options super().execute() was last called with
    pRaised        \* the exception the last call raised, if any

varsDispatch == <<classes, pc, viewCls, perms, permissions_checked, fn, hasCalls,
                  objCalls, getObjectCalls, baseResult, checkResult, origRan, result>>
varsFile == <<fPc, fKwargs, fPath, fDebug, fDisposition, fStorage, fLookups,
              fResponse, fRaised>>
varsReverse == <<rCandidates, rViewname, rKwargs, rOkKwargs, rResult>>
varsProgress == <<no_progress, stderr, pDelegated, pRaised>>

vars == <<varsDispatch, varsFile, varsReverse, varsProgress>>

\* ====================================================================
\* protected/views.py: ProtectedViewBase, ProtectedView, ProtectedObjectMixin
\* ====================================================================

\* A dispatch function: the dispatch() body written in class `owner` (0 is
\* django's View.dispatch), bare or inside _permission_wrapper's wrapper.
\* Only a wrapper carries the _checks_permissions attribute.
ViewDispatch == [owner |-> 0, wrapped |-> FALSE]

\* mutant: the wrapper is not applied
PermissionWrapperSkipped(dispatch) == dispatch

\* _permission_wrapper(dispatch)
PermissionWrapper(dispatch) == [owner |-> dispatch.owner, wrapped |-> TRUE]

\* base.dispatch of the first base that has one: the mixin has none, so it is
\* the parent's (every class the metaclass built holds one in its attrs)
BaseDispatch(parent) == IF parent = 0 THEN ViewDispatch ELSE classes[parent].dispatch

\* ProtectedViewBase.__new__: the class's dispatch attribute
MetaNew(own, parent, n) ==
    LET dispatcher == IF own THEN [owner |-> n, wrapped |-> FALSE]
                             ELSE BaseDispatch(parent)
    IN IF dispatcher.wrapped THEN dispatcher ELSE PermissionWrapper(dispatcher)

\* ProtectedView(View, metaclass=ProtectedViewBase)
ProtectedViewClass ==
    [parent |-> 0, mixin |-> FALSE, own |-> FALSE,
     dispatch |-> PermissionWrapper(ViewDispatch)]

\* whether ProtectedObjectMixin is in the class's MRO (it is always listed
\* before ProtectedView, as in every class of views.py)
RECURSIVE HasMixin(_)
HasMixin(c) ==
    IF c = 0 THEN FALSE
    ELSE classes[c].mixin \/ HasMixin(classes[c].parent)

\* ProtectedView.permission_denied, permission_denied_redirect set or not
PermissionDenied(redirect) == IF redirect THEN "HttpResponseRedirect"
                                          ELSE "HttpResponseForbidden"

\* mutant: the view-level check asks the object-level method
HasPermissionAsksObject(i) == perms[i].obj

\* permission.has_permission(request, self) of the i-th permission
HasPermissionOf(i) == perms[i].has

\* permission.has_object_permission(request, self, obj) of the i-th permission
HasObjectPermissionOf(i) == perms[i].obj

PermOutcomes == UNION {[1..n -> [has : BOOLEAN, obj : BOOLEAN]] : n \in 0..MaxPerms}

\* the other components, at rest while requests are dispatched
restDispatch == <<varsFile, varsReverse, varsProgress>>

DispatchAtRest ==
    /\ classes = <<ProtectedViewClass>>
    /\ pc = "idle"
    /\ viewCls = 1
    /\ perms = <<>>
    /\ permissions_checked = FALSE
    /\ fn = ViewDispatch
    /\ hasCalls = 0
    /\ objCalls = 0
    /\ getObjectCalls = 0
    /\ baseResult = None
    /\ checkResult = None
    /\ origRan = {}
    /\ result = None

\* class X([ProtectedObjectMixin,] <parent>): ... [def dispatch(...)]
DefineClass ==
    /\ pc = "idle"
    /\ Len(classes) < 1 + MaxClasses
    /\ \E parent \in 1..Len(classes), mixin \in BOOLEAN, own \in BOOLEAN :
           classes' = Append(classes,
                         [parent |-> parent, mixin |-> mixin, own |-> own,
                          dispatch |-> MetaNew(own, parent, Len(classes) + 1)])
    /\ UNCHANGED <<pc, viewCls, perms, permissions_checked, fn, hasCalls, objCalls,
                   getObjectCalls, baseResult, checkResult, origRan, result>>
    /\ UNCHANGED restDispatch

\* as_view()'s view(): a fresh instance, then self.dispatch(request)
StartRequest ==
    /\ pc \in {"idle", "served"}
    /\ \E c \in 1..Len(classes) :
           /\ viewCls' = c
           /\ fn' = classes[c].dispatch
    /\ perms' \in PermOutcomes
    /\ permissions_checked' = FALSE
    /\ pc' = "call"
    /\ hasCalls' = 0
    /\ objCalls' = 0
    /\ getObjectCalls' = 0
    /\ baseResult' = None
    /\ checkResult' = None
    /\ origRan' = {}
    /\ result' = None
    /\ UNCHANGED classes
    /\ UNCHANGED restDispatch

\* wrapper(): the permissions were checked already: straight to dispatch
WrapperPass ==
    /\ pc = "call"
    /\ fn.wrapped
    /\ permissions_checked
    /\ fn' = [fn EXCEPT !.wrapped = FALSE]
    /\ UNCHANGED <<classes, pc, viewCls, perms, permissions_checked, hasCalls, objCalls,
                   getObjectCalls, baseResult, checkResult, origRan, result>>
    /\ UNCHANGED restDispatch

\* wrapper(): first time through: mark, then call self.check_permissions
WrapperCheck ==
    /\ pc = "call"
    /\ fn.wrapped
    /\ ~permissions_checked
    /\ permissions_checked' = TRUE
    /\ pc' = "has_permission"
    /\ UNCHANGED <<classes, viewCls, perms, fn, hasCalls, objCalls,
                   getObjectCalls, baseResult, checkResult, origRan, result>>
    /\ UNCHANGED restDispatch

\* mutant: the mixin does not return on a failed view-level check
AfterBaseCheckGoesOn(b) ==
    IF HasMixin(viewCls) THEN [pc |-> "get_object", check |-> None]
                         ELSE [pc |-> "checked", check |-> Bool(b)]

\* where check_permissions goes once ProtectedView.check_permissions returned b
AfterBaseCheck(b) ==
    IF HasMixin(viewCls)
    THEN IF b THEN [pc |-> "get_object", check |-> None]
              ELSE [pc |-> "checked", check |-> Bool(FALSE)]
    ELSE [pc |-> "checked", check |-> Bool(b)]

\* ProtectedView.check_permissions: all(...) over the generator, one
\* has_permission() per step, stopping at the first false
HasPermission ==
    /\ pc = "has_permission"
    /\ IF hasCalls < Len(perms)
       THEN /\ hasCalls' = hasCalls + 1
            /\ IF HasPermissionOf(hasCalls + 1)
               THEN UNCHANGED <<pc, baseResult, checkResult>>
               ELSE /\ baseResult' = Bool(FALSE)
                    /\ pc' = AfterBaseCheck(FALSE).pc
                    /\ checkResult' = AfterBaseCheck(FALSE).check
       ELSE /\ baseResult' = Bool(TRUE)
            /\ pc' = AfterBaseCheck(TRUE).pc
            /\ checkResult' = AfterBaseCheck(TRUE).check
            /\ UNCHANGED hasCalls
    /\ UNCHANGED <<classes, viewCls, perms, permissions_checked, fn, objCalls,
                   getObjectCalls, origRan, result>>
    /\ UNCHANGED restDispatch

\* ProtectedObjectMixin.check_permissions: obj = self.get_object(), which
\* returns the object or raises Http404
GetObject ==
    /\ pc = "get_object"
    /\ getObjectCalls' = getObjectCalls + 1
    /\ \/ /\ pc' = "has_object_permission"
          /\ UNCHANGED result
       \/ /\ pc' = "done"
          /\ result' = "Http404"
    /\ UNCHANGED <<classes, viewCls, perms, permissions_checked, fn, hasCalls, objCalls,
                   baseResult, checkResult, origRan>>
    /\ UNCHANGED restDispatch

\* ProtectedObjectMixin.check_permissions: all(...) over has_object_permission
HasObjectPermission ==
    /\ pc = "has_object_permission"
    /\ IF objCalls < Len(perms)
       THEN /\ objCalls' = objCalls + 1
            /\ IF HasObjectPermissionOf(objCalls + 1)
               THEN UNCHANGED <<pc, checkResult>>
               ELSE /\ checkResult' = Bool(FALSE)
                    /\ pc' = "checked"
       ELSE /\ checkResult' = Bool(TRUE)
            /\ pc' = "checked"
            /\ UNCHANGED objCalls
    /\ UNCHANGED <<classes, viewCls, perms, permissions_checked, fn, hasCalls,
                   getObjectCalls, baseResult, origRan, result>>
    /\ UNCHANGED restDispatch

\* wrapper(): check_permissions returned true: dispatch(self, request, ...)
WrapperAllow ==
    /\ pc = "checked"
    /\ checkResult = Bool(TRUE)
    /\ fn' = [fn EXCEPT !.wrapped = FALSE]
    /\ pc' = "call"
    /\ UNCHANGED <<classes, viewCls, perms, permissions_checked, hasCalls, objCalls,
                   getObjectCalls, baseResult, checkResult, origRan, result>>
    /\ UNCHANGED restDispatch

\* wrapper(): check_permissions returned false: self.permission_denied(request),
\* a redirect when permission_denied_redirect is set, else 403
WrapperDeny ==
    /\ pc = "checked"
    /\ checkResult = Bool(FALSE)
    /\ \E redirect \in BOOLEAN : result' = PermissionDenied(redirect)
    /\ pc' = "done"
    /\ UNCHANGED <<classes, viewCls, perms, permissions_checked, fn, hasCalls, objCalls,
                   getObjectCalls, baseResult, checkResult, origRan>>
    /\ UNCHANGED restDispatch

\* django's View.dispatch: runs the HTTP method handler
RunViewDispatch ==
    /\ pc = "call"
    /\ ~fn.wrapped
    /\ fn.owner = 0
    /\ origRan' = origRan \cup {0}
    /\ result' = "HandlerResponse"
    /\ pc' = "done"
    /\ UNCHANGED <<classes, viewCls, perms, permissions_checked, fn, hasCalls, objCalls,
                   getObjectCalls, baseResult, checkResult>>
    /\ UNCHANGED restDispatch

\* a dispatch() written in a subclass: it answers itself, or goes on to
\* super().dispatch(), the parent's dispatch attribute
RunOwnDispatch ==
    /\ pc = "call"
    /\ ~fn.wrapped
    /\ fn.owner > 0
    /\ origRan' = origRan \cup {fn.owner}
    /\ \/ /\ result' = "OwnResponse"
          /\ pc' = "done"
          /\ UNCHANGED fn
       \/ /\ fn' = BaseDispatch(classes[fn.owner].parent)
          /\ UNCHANGED <<pc, result>>
    /\ UNCHANGED <<classes, viewCls, perms, permissions_checked, hasCalls, objCalls,
                   getObjectCalls, baseResult, checkResult>>
    /\ UNCHANGED restDispatch



\* view(): the response is returned (or the exception propagates) and the
\* instance is dropped; the classes stay
EndRequest ==
    /\ pc = "done"
    /\ pc' = "served"
    /\ viewCls' = 1
    /\ perms' = <<>>
    /\ permissions_checked' = FALSE
    /\ fn' = ViewDispatch
    /\ hasCalls' = 0
    /\ objCalls' = 0
    /\ getObjectCalls' = 0
    /\ baseResult' = None
    /\ checkResult' = None
    /\ origRan' = {}
    /\ result' = None
    /\ UNCHANGED classes
    /\ UNCHANGED restDispatch

NextDispatch ==
    \/ DefineClass
    \/ StartRequest
    \/ WrapperPass
    \/ WrapperCheck
    \/ HasPermission
    \/ GetObject
    \/ HasObjectPermission
    \/ WrapperAllow
    \/ WrapperDeny
    \/ RunViewDispatch
    \/ RunOwnDispatch
    \/ EndRequest

\* ====================================================================
\* protected/views.py: ProtectedFileView.get (head = get)
\* ====================================================================

\* A path is a sequence of characters; '/' separates its components.
Chars == {"a", "/"}
Paths == UNION {[1..n -> Chars] : n \in 0..MaxPathLen}
\* get_file_path() returning None
NoPath == <<None>>

\* the index of the last '/' of p, 0 when it has none: p.rfind('/') + 1
LastSlash(p) ==
    LET at == {i \in 1..Len(p) : p[i] = "/"}
    IN IF at = {} THEN 0 ELSE CHOOSE i \in at : \A j \in at : j <= i

\* os.path.basename(p)
Basename(p) == SubSeq(p, LastSlash(p) + 1, Len(p))

\* storage.url(name): the storage's base url joined with the name
StorageUrl(name) == <<"base_url">> \o name

\* storage.path(name) under storage.location, what serve() is pointed at
ServedFile(path) == <<"location">> \o path

\* mutant: the header names the whole relative path
DispositionWithPath(cd, relpath) == <<cd, "; filename=">> \o relpath \o <<";\"">>

\* '{}; filename={};"'.format(self.content_disposition, basename)
DispositionHeader(cd, relpath) ==
    <<cd, "; filename=">> \o Basename(relpath) \o <<";\"">>

\* Responses. A header that is not set is <<>>.
NoResponse ==
    [kind |-> None, status |-> 0, body |-> <<>>, content_type |-> <<>>,
     x_accel_redirect |-> <<>>, content_disposition |-> <<>>]
\* HttpResponseNotFound()
HttpResponseNotFound ==
    [NoResponse EXCEPT !.kind = "HttpResponseNotFound", !.status = 404,
                       !.content_type = <<"text/html">>]
\* HttpResponse(): empty body, and the Content-Type django always sets
HttpResponse ==
    [NoResponse EXCEPT !.kind = "HttpResponse", !.status = 200,
                       !.content_type = <<"text/html">>]
\* what django.views.static.serve returns for a file it finds: the file's
\* content (200) or, for a conditional request, 304 without content
ServeResponse(path, status) ==
    [NoResponse EXCEPT !.kind = "serve", !.status = status,
                       !.body = IF status = 200 THEN ServedFile(path) ELSE <<>>,
                       !.content_type = IF status = 200 THEN <<"guessed">> ELSE <<>>]

KwargKeys == {"filename", "filepath"}
ViewKwargs == UNION {[K -> Paths] : K \in SUBSET KwargKeys}
Dispositions == {None, "inline", "attachment"}

\* mutant: only one of the two kwargs is verified
VerifiesFilenameOnly(kwargs, relpath) ==
    ~("filename" \in DOMAIN kwargs /\ kwargs["filename"] # Basename(relpath))

\* the kwargs agree with the retrieved file (views.py:242-243, negated)
Verifies(kwargs, relpath) ==
    ~ \/ ("filename" \in DOMAIN kwargs /\ kwargs["filename"] # Basename(relpath))
      \/ ("filepath" \in DOMAIN kwargs /\ kwargs["filepath"] # relpath)

\* mutant: the two kwargs are accepted together
NeverExclusive(kwargs) == FALSE

\* 'filename' in kwargs and 'filepath' in kwargs
BothKwargs(kwargs) == "filename" \in DOMAIN kwargs /\ "filepath" \in DOMAIN kwargs

FileAtRest ==
    /\ fPc = "idle"
    /\ fKwargs = <<>>
    /\ fPath = NoPath
    /\ fDebug = FALSE
    /\ fDisposition = None
    /\ fStorage = FALSE
    /\ fLookups = 0
    /\ fResponse = NoResponse
    /\ fRaised = None

\* the other components, at rest while files are served
restFile == <<varsDispatch, varsReverse, varsProgress>>

\* a GET or HEAD reaches get() (after the permission checks let it through)
\* with these kwargs, on a view whose file, settings and attributes are these
FileRequest ==
    /\ fPc = "idle"
    /\ fKwargs' \in ViewKwargs
    /\ fPath' \in Paths \cup {NoPath}
    /\ fDebug' \in BOOLEAN
    /\ fDisposition' \in Dispositions
    /\ fStorage' \in BOOLEAN
    /\ fLookups' = 0
    /\ fResponse' = NoResponse
    /\ fRaised' = None
    /\ fPc' = "get"
    /\ UNCHANGED restFile

\* views.py:230-233: the kwargs are mutually exclusive
GetExclusive ==
    /\ fPc = "get"
    /\ IF BothKwargs(fKwargs)
       THEN /\ fRaised' = "ImproperlyConfigured"
            /\ fPc' = "done"
       ELSE /\ fPc' = "lookup"
            /\ UNCHANGED fRaised
    /\ UNCHANGED <<fKwargs, fPath, fDebug, fDisposition, fStorage, fLookups, fResponse>>
    /\ UNCHANGED restFile

\* views.py:235-238: relpath = self.get_file_path(); no file, no response but 404
GetLookup ==
    /\ fPc = "lookup"
    /\ fLookups' = fLookups + 1
    /\ IF fPath = NoPath \/ fPath = <<>>
       THEN /\ fResponse' = HttpResponseNotFound
            /\ fPc' = "done"
       ELSE /\ fPc' = "verify"
            /\ UNCHANGED fResponse
    /\ UNCHANGED <<fKwargs, fPath, fDebug, fDisposition, fStorage, fRaised>>
    /\ UNCHANGED restFile

\* views.py:240-244: the kwargs against the file; comparing 'filepath' calls
\* get_file_path() once more, unless 'filename' already decided
GetVerify ==
    /\ fPc = "verify"
    /\ fLookups' = IF /\ "filepath" \in DOMAIN fKwargs
                      /\ ~("filename" \in DOMAIN fKwargs
                           /\ fKwargs["filename"] # Basename(fPath))
                   THEN fLookups + 1 ELSE fLookups
    /\ IF Verifies(fKwargs, fPath)
       THEN /\ fPc' = "respond"
            /\ UNCHANGED fResponse
       ELSE /\ fResponse' = HttpResponseNotFound
            /\ fPc' = "done"
    /\ UNCHANGED <<fKwargs, fPath, fDebug, fDisposition, fStorage, fRaised>>
    /\ UNCHANGED restFile

\* views.py:246-249: DEBUG: django's serve() under storage.location, which
\* answers 200 or 304 or raises Http404 (no such file); get_storage() raises
\* when the view has no storage
GetServe ==
    /\ fPc = "respond"
    /\ fDebug
    /\ IF ~fStorage
       THEN /\ fRaised' = "ImproperlyConfigured"
            /\ fPc' = "done"
            /\ UNCHANGED fResponse
       ELSE \/ /\ \E status \in {200, 304} : fResponse' = ServeResponse(fPath, status)
               /\ fPc' = "disposition"
               /\ UNCHANGED fRaised
            \/ /\ fRaised' = "Http404"
               /\ fPc' = "done"
               /\ UNCHANGED fResponse
    /\ UNCHANGED <<fKwargs, fPath, fDebug, fDisposition, fStorage, fLookups>>
    /\ UNCHANGED restFile

\* views.py:250-258: an empty response with X-Accel-Redirect =
\* self.get_file_url() and without Content-Type
GetAccel ==
    /\ fPc = "respond"
    /\ ~fDebug
    /\ IF ~fStorage
       THEN /\ fRaised' = "ImproperlyConfigured"
            /\ fPc' = "done"
            /\ UNCHANGED <<fResponse, fLookups>>
       ELSE /\ fResponse' = [HttpResponse EXCEPT !.x_accel_redirect = StorageUrl(fPath),
                                                 !.content_type = <<>>]
            /\ fLookups' = fLookups + 1
            /\ fPc' = "disposition"
            /\ UNCHANGED fRaised
    /\ UNCHANGED <<fKwargs, fPath, fDebug, fDisposition, fStorage>>
    /\ UNCHANGED restFile

\* views.py:260-265: Content-Disposition, then return response
GetDisposition ==
    /\ fPc = "disposition"
    /\ fResponse' = IF fDisposition # None
                    THEN [fResponse EXCEPT !.content_disposition =
                                               DispositionHeader(fDisposition, fPath)]
                    ELSE fResponse
    /\ fPc' = "done"
    /\ UNCHANGED <<fKwargs, fPath, fDebug, fDisposition, fStorage, fLookups, fRaised>>
    /\ UNCHANGED restFile

\* the response is returned (or the exception propagates); the next request
\* gets a view instance of its own
GetReturn ==
    /\ fPc = "done"
    /\ fPc' = "idle"
    /\ fKwargs' = <<>>
    /\ fPath' = NoPath
    /\ fDebug' = FALSE
    /\ fDisposition' = None
    /\ fStorage' = FALSE
    /\ fLookups' = 0
    /\ fResponse' = NoResponse
    /\ fRaised' = None
    /\ UNCHANGED restFile

NextFile ==
    \/ FileRequest
    \/ GetExclusive
    \/ GetLookup
    \/ GetVerify
    \/ GetServe
    \/ GetAccel
    \/ GetDisposition
    \/ GetReturn

\* ====================================================================
\* urlresolvers.py: wild_reverse
\* ====================================================================

\* the kwargs ProtectedFieldFile.url passes (fields.py:14-16)
Keys == {"pk", "filename", "filepath"}
KeyValues(k) == IF k = "pk" THEN {"7", "x"} ELSE IF k = "filename" THEN {"f"} ELSE {"d/f"}
Kwargs == UNION {{kw \in [K -> {"7", "x", "f", "d/f"}] : \A k \in K : kw[k] \in KeyValues(k)} :
                 K \in SUBSET Keys}

\* A url pattern registered under the view name: the parameters of its
\* regex, those of an optional group apart. Its possibilities, as
\* regex_helper.normalize lists them: without the optional group first.
Candidates ==
    {c \in [req : SUBSET Keys, opt : SUBSET Keys] :
        c.req \cap c.opt = {} /\ Cardinality(c.opt) <= 1}
CandidateLists == UNION {[1..n -> Candidates] : n \in 0..MaxCandidates}
Possibilities(c) == IF c.opt = {} THEN <<c.req>> ELSE <<c.req, c.req \cup c.opt>>

\* whether the pattern's regex matches the value given for a parameter:
\* pk is (?P<pk>\d+), the others take any text
Matches(k, v) == k = "pk" => v = "7"

\* The url configuration: the name "detail" (and the view function
\* views.detail) registered at the root and again under the instance
\* namespace "ns" of the application "app".
ViewName == "detail"
ViewPath == "views.detail"
AppDict(resolver) == IF resolver = "root" THEN [app |-> <<"ns">>] ELSE <<>>
NamespaceDict(resolver) ==
    IF resolver = "root" THEN [ns |-> [extra |-> <<"ns/">>, resolver |-> "sub"]] ELSE <<>>
Viewnames ==
    {<<v>> : v \in {ViewName, ViewPath}}
        \cup {<<n, v>> : n \in {"ns", "app", "bad"}, v \in {ViewName, ViewPath}}
        \cup {<<"ns", "bad", ViewName>>}

\* urlresolvers.py:38-72, with current_app None: the namespaces of the view
\* name, outermost first, looked up one inside the other
RECURSIVE ResolveNamespaces(_, _, _)
ResolveNamespaces(path, resolver, ns_pattern) ==
    IF path = <<>> THEN [ok |-> TRUE, resolver |-> resolver, ns_pattern |-> ns_pattern]
    ELSE LET given == Head(path)
             apps == AppDict(resolver)
             ns == IF given \in DOMAIN apps /\ \A i \in DOMAIN apps[given] : apps[given][i] # given
                   THEN apps[given][1] ELSE given
             spaces == NamespaceDict(resolver)
         IN IF ns \in DOMAIN spaces
            THEN ResolveNamespaces(Tail(path), spaces[ns].resolver,
                                   ns_pattern \o spaces[ns].extra)
            ELSE [ok |-> FALSE, resolver |-> resolver, ns_pattern |-> ns_pattern]

\* results of a call
NoResult == [kind |-> None, prefix |-> <<>>, route |-> 0, possibility |-> 0, subs |-> <<>>]
Raise(exception) == [NoResult EXCEPT !.kind = exception]
Url(prefix, route, possibility, subs) ==
    [kind |-> "url", prefix |-> prefix, route |-> route, possibility |-> possibility,
     subs |-> subs]

\* resolver._reverse_with_prefix(view, prefix, **kwargs): the first
\* possibility, in getlist order, whose parameters are exactly the kwargs
\* given and whose regex matches the values
ReverseWithPrefix(candidates, prefix, kwargs) ==
    LET hits == {<<i, j>> \in (DOMAIN candidates) \X {1, 2} :
                    /\ j <= Len(Possibilities(candidates[i]))
                    /\ Possibilities(candidates[i])[j] = DOMAIN kwargs
                    /\ \A k \in DOMAIN kwargs : Matches(k, kwargs[k])}
    IN IF hits = {} THEN Raise("NoReverseMatch")
       ELSE LET first == CHOOSE h \in hits :
                             \A g \in hits : h[1] < g[1] \/ (h[1] = g[1] /\ h[2] <= g[2])
            IN Url(prefix, first[1], first[2], kwargs)

\* resolver._is_callback(view): a dotted path of a registered view function
IsCallback(candidates, view) == candidates # <<>> /\ view = ViewPath

\* resolver.reverse_dict[lookup_view][0][0][1]: MultiValueDict's [] yields the
\* last value registered; of it the first possibility's parameters
Params(candidates) == Possibilities(candidates[Len(candidates)])[1]

\* mutant: every kwarg is handed on, as django's reverse() does
AllKwargs(params, kwargs) == kwargs

\* dict((param, kwargs[param]) for param in params), its KeyError apart
OkKwargs(params, kwargs) == [param \in params |-> kwargs[param]]

\* wild_reverse(viewname, kwargs): [result, ok_kwargs]
WildReverse(candidates, viewname, kwargs) ==
    LET view == viewname[Len(viewname)]
        found == ResolveNamespaces(SubSeq(viewname, 1, Len(viewname) - 1), "root", <<>>)
        prefix == <<"/">> \o found.ns_pattern
    IN IF ~found.ok THEN [result |-> Raise("NoReverseMatch"), ok_kwargs |-> <<>>]
       ELSE IF IsCallback(candidates, view)
            \* get_callable is not imported (urlresolvers.py:3-6, 89)
       THEN [result |-> Raise("NameError"), ok_kwargs |-> <<>>]
       ELSE IF view # ViewName \/ candidates = <<>>
            \* KeyError from reverse_dict[lookup_view]
       THEN [result |-> Raise("NoReverseMatch"), ok_kwargs |-> <<>>]
       ELSE IF ~(Params(candidates) \subseteq DOMAIN kwargs)
            \* KeyError from kwargs[param]
       THEN [result |-> Raise("NoReverseMatch"), ok_kwargs |-> <<>>]
       ELSE LET ok_kwargs == OkKwargs(Params(candidates), kwargs)
            IN [result |-> ReverseWithPrefix(candidates, prefix, ok_kwargs),
                ok_kwargs |-> ok_kwargs]

ReverseAtRest ==
    /\ rCandidates = <<>>
    /\ rViewname = <<>>
    /\ rKwargs = <<>>
    /\ rOkKwargs = <<>>
    /\ rResult = NoResult

\* the other components, at rest while urls are reversed
restReverse == <<varsDispatch, varsFile, varsProgress>>

\* one call of wild_reverse(viewname, kwargs)
CallWildReverse ==
    /\ rResult = NoResult
    /\ \E viewname \in Viewnames, kwargs \in Kwargs :
           LET called == WildReverse(rCandidates, viewname, kwargs)
           IN /\ rViewname' = viewname
              /\ rKwargs' = kwargs
              /\ rResult' = called.result
              /\ rOkKwargs' = called.ok_kwargs
    /\ UNCHANGED rCandidates
    /\ UNCHANGED restReverse

NextReverse == CallWildReverse

\* ====================================================================
\* management/mixins.py: ProgressMixin
\* ====================================================================

\* len(str(total)) for total >= 0
RECURSIVE StrLen(_)
StrLen(n) == IF n < 10 THEN 1 ELSE 1 + StrLen(n \div 10)

\* int(float(x) / total * 100), total # 0
Percentage(x, total) == (x * 100) \div total

\* "\r%s%s%s" % (PROGRESS_PREFIX, out, PROGRESS_SUFFIX) with out
\* "{item:<width>d}/{total:d} [{percentage:3d}%]" filled in
ProgressLine(x, total) ==
    [text |-> "\\r{item}/{total} [{percentage}%]", width |-> StrLen(total),
     item |-> x, total |-> total, percentage |-> Percentage(x, total)]
\* the '\n' written once the percentage is 100
Newline == [text |-> "\\n", width |-> 0, item |-> 0, total |-> 0, percentage |-> 0]

\* the options of a command run: 'no_progress' (from --no-progress) and
\* another one, or, with add_arguments overridden, without 'no_progress'
Options ==
    [{"no_progress", "verbosity"} -> BOOLEAN] \cup [{"verbosity"} -> BOOLEAN]
NotDelegated == [called |-> FALSE, options |-> <<>>]

\* what options.pop(key) leaves in options
Popped(options, key) == [k \in DOMAIN options \ {key} |-> options[k]]

\* if self.no_progress: return
Suppressed(flag) == flag

ProgressAtRest ==
    /\ no_progress = FALSE
    /\ stderr = <<>>
    /\ pDelegated = NotDelegated
    /\ pRaised = None

\* the other components, at rest while a command runs
restProgress == <<varsDispatch, varsFile, varsReverse>>

\* ProgressMixin.execute(**options)
Execute(options) ==
    /\ IF "no_progress" \in DOMAIN options
       THEN /\ no_progress' = options["no_progress"]
            /\ pDelegated' = [called |-> TRUE, options |-> Popped(options, "no_progress")]
            /\ pRaised' = None
       ELSE /\ pRaised' = "KeyError"
            /\ UNCHANGED <<no_progress, pDelegated>>
    /\ UNCHANGED stderr
    /\ UNCHANGED restProgress

\* ProgressMixin.progress(x, total)
Progress(x, total) ==
    /\ Len(stderr) < MaxWrites
    /\ IF Suppressed(no_progress)
       THEN /\ pRaised' = None
            /\ UNCHANGED stderr
       ELSE IF total = 0
       THEN /\ pRaised' = "ZeroDivisionError"
            /\ UNCHANGED stderr
       ELSE /\ pRaised' = None
            /\ stderr' = IF Percentage(x, total) = 100
                         THEN stderr \o <<ProgressLine(x, total), Newline>>
                         ELSE Append(stderr, ProgressLine(x, total))
    /\ UNCHANGED <<no_progress, pDelegated>>
    /\ UNCHANGED restProgress

NextProgress ==
    \/ \E options \in Options : Execute(options)
    \/ \E x \in 0..MaxTotal, total \in 0..MaxTotal : Progress(x, total)

\* ====================================================================
\* specifications
\* ====================================================================

InitDispatch == DispatchAtRest /\ FileAtRest /\ ReverseAtRest /\ ProgressAtRest
SpecDispatch == InitDispatch /\ [][NextDispatch]_vars

InitFile == DispatchAtRest /\ FileAtRest /\ ReverseAtRest /\ ProgressAtRest
SpecFile == InitFile /\ [][NextFile]_vars

InitReverse ==
    /\ DispatchAtRest /\ FileAtRest /\ ProgressAtRest
    /\ rCandidates \in CandidateLists
    /\ rViewname = <<>>
    /\ rKwargs = <<>>
    /\ rOkKwargs = <<>>
    /\ rResult = NoResult
SpecReverse == InitReverse /\ [][NextReverse]_vars

InitProgress == DispatchAtRest /\ FileAtRest /\ ReverseAtRest /\ ProgressAtRest
SpecProgress == InitProgress /\ [][NextProgress]_vars



\* ====================================================================
\* properties of the protected views (SpecDispatch)
\* ====================================================================

AllHavePermission == \A i \in DOMAIN perms : perms[i].has
AllHaveObjectPermission == \A i \in DOMAIN perms : perms[i].obj

\* C1: on a fresh view instance of any class the metaclass built, an
\* original dispatch() body (and with it any HTTP method handler) runs only
\* after check_permissions(request) returned true; when it returned false no
\* original dispatch() runs and the call returns permission_denied(request).
DispatchOnlyAfterPermission ==
    /\ (pc = "call" /\ ~fn.wrapped) => checkResult = Bool(TRUE)
    /\ origRan # {} => checkResult = Bool(TRUE)
    /\ checkResult = Bool(FALSE) => origRan = {}
    /\ (pc = "done" /\ checkResult = Bool(FALSE)) =>
           result \in {PermissionDenied(redirect) : redirect \in BOOLEAN}
    /\ result \in {"HandlerResponse", "OwnResponse"} => checkResult = Bool(TRUE)

\* a request refused on a class that wrote its own dispatch()
DeniedBeforeOwnDispatch ==
    /\ pc = "done"
    /\ classes[viewCls].own
    /\ checkResult = Bool(FALSE)
    /\ origRan = {}
    /\ result = "HttpResponseForbidden"

\* C2: ProtectedView.check_permissions returns true exactly when every
\* permission of permission_classes has has_permission() true, true for an
\* empty permission_classes, and false at the first permission that says
\* false, the later ones not being asked; each permission is asked once.
CheckPermissionsIsAll ==
    /\ hasCalls <= Len(perms)
    /\ \A i \in 1..(hasCalls - 1) : perms[i].has
    /\ baseResult # None =>
        /\ baseResult = Bool(AllHavePermission)
        /\ baseResult = Bool(TRUE) => hasCalls = Len(perms)
        /\ baseResult = Bool(FALSE) => (hasCalls >= 1 /\ ~perms[hasCalls].has)
        /\ perms = <<>> => baseResult = Bool(TRUE)
    /\ (~HasMixin(viewCls) /\ checkResult # None) => checkResult = baseResult

\* the first of two permissions refuses; the second, which would allow, is not asked
RefusedAtFirstPermission ==
    /\ baseResult = Bool(FALSE)
    /\ Len(perms) = 2
    /\ hasCalls = 1
    /\ perms[2].has

\* C3: with ProtectedObjectMixin, check_permissions returns true exactly when
\* every has_permission() and every has_object_permission() (on the object
\* get_object() returned) is true; after a failed view-level check
\* get_object() is not called and no has_object_permission() is evaluated.
ObjectPermissionsAfterViewPermissions ==
    HasMixin(viewCls) =>
        /\ checkResult # None =>
               checkResult = Bool(AllHavePermission /\ AllHaveObjectPermission)
        /\ baseResult # Bool(TRUE) => (getObjectCalls = 0 /\ objCalls = 0)
        /\ baseResult = Bool(FALSE) => (pc \in {"checked", "done"} => checkResult = Bool(FALSE))
        /\ getObjectCalls <= 1
        /\ objCalls > 0 => getObjectCalls = 1
        /\ objCalls <= Len(perms)

\* a view-level refusal on an object view whose object-level checks would pass
RefusedBeforeGetObject ==
    /\ HasMixin(viewCls)
    /\ pc = "done"
    /\ baseResult = Bool(FALSE)
    /\ checkResult = Bool(FALSE)
    /\ AllHaveObjectPermission
    /\ getObjectCalls = 0

\* ====================================================================
\* properties of ProtectedFileView.get (SpecFile)
\* ====================================================================

HasFile == fPath # NoPath /\ fPath # <<>>
FilenameGiven == "filename" \in DOMAIN fKwargs
FilepathGiven == "filepath" \in DOMAIN fKwargs
FilenameDiffers == FilenameGiven /\ fKwargs["filename"] # Basename(fPath)
FilepathDiffers == FilepathGiven /\ fKwargs["filepath"] # fPath
\* the Content-Disposition the response must carry
ExpectedDisposition ==
    IF fDisposition = None THEN <<>>
    ELSE <<fDisposition, "; filename=">> \o Basename(fPath) \o <<";\"">>

\* C4: a GET/HEAD whose file path is non-empty and passes the verification
\* (on a view with a storage): under DEBUG the outcome is that of django's
\* serve() for the path under the storage location; otherwise the response
\* has no body, X-Accel-Redirect = storage.url(path) and no Content-Type.
\* Either way a set content_disposition adds a Content-Disposition header
\* naming the basename.
FileIsServedOrRedirected ==
    (fPc = "done" /\ ~(FilenameGiven /\ FilepathGiven) /\ HasFile
                  /\ ~FilenameDiffers /\ ~FilepathDiffers /\ fStorage) =>
        /\ fDebug =>
              \/ fRaised = "Http404" /\ fResponse = NoResponse
              \/ /\ fRaised = None
                 /\ \E status \in {200, 304} :
                        fResponse = [ServeResponse(fPath, status) EXCEPT
                                        !.content_disposition = ExpectedDisposition]
        /\ ~fDebug =>
              /\ fRaised = None
              /\ fResponse.kind = "HttpResponse"
              /\ fResponse.body = <<>>
              /\ fResponse.x_accel_redirect = StorageUrl(fPath)
              /\ fResponse.content_type = <<>>
              /\ fResponse.content_disposition = ExpectedDisposition

\* a file in a directory, asked for by its name, handed to the front-end
\* server as an attachment
RedirectedAsAttachment ==
    /\ fPc = "done"
    /\ ~fDebug
    /\ fPath = <<"a", "/", "a">>
    /\ FilenameGiven /\ ~FilepathGiven
    /\ fDisposition = "attachment"
    /\ fResponse.x_accel_redirect = StorageUrl(fPath)
    /\ fResponse.content_disposition = <<"attachment", "; filename=", "a", ";\"">>

\* whether the request ended in a 404 response and nothing else
EndedNotFound ==
    /\ fRaised = None
    /\ fResponse = HttpResponseNotFound
NothingServed ==
    /\ fResponse.kind \notin {"serve", "HttpResponse"}
    /\ fResponse.x_accel_redirect = <<>>

\* C5 as stated: a kwarg that differs from the file, or no file, always ends
\* in 404 Not Found, without file response or X-Accel-Redirect.
MismatchAlwaysNotFound ==
    (fPc = "done" /\ (FilenameDiffers \/ FilepathDiffers \/ ~HasFile)) =>
        (EndedNotFound /\ NothingServed)

\* C5, amended: the same when at most one of the two kwargs is given; with
\* both given nothing is served either, and the request ends in the
\* ImproperlyConfigured of C6 instead of a 404.
MismatchNotFoundUnlessBoth ==
    (fPc = "done" /\ (FilenameDiffers \/ FilepathDiffers \/ ~HasFile)) =>
        /\ NothingServed
        /\ ~(FilenameGiven /\ FilepathGiven) => EndedNotFound
        /\ (FilenameGiven /\ FilepathGiven) =>
               (fRaised = "ImproperlyConfigured" /\ fResponse = NoResponse)

\* a filepath kwarg that is not the file's path (though it has its basename)
NotFoundOnFilepath ==
    /\ fPc = "done"
    /\ HasFile
    /\ FilepathDiffers /\ ~FilenameGiven
    /\ Basename(fKwargs["filepath"]) = Basename(fPath)
    /\ fResponse.status = 404

\* C6: a GET/HEAD given both 'filename' and 'filepath' raises
\* ImproperlyConfigured before get_file_path() is called and before any
\* response is built, whatever the file and the values.
KwargsMutuallyExclusive ==
    (FilenameGiven /\ FilepathGiven /\ fPc \notin {"idle", "get"}) =>
        /\ fPc = "done"
        /\ fRaised = "ImproperlyConfigured"
        /\ fLookups = 0
        /\ fResponse = NoResponse

\* both kwargs given, and both right for the file there is
RaisedThoughBothMatch ==
    /\ fPc = "done"
    /\ HasFile
    /\ FilenameGiven /\ FilepathGiven
    /\ ~FilenameDiffers /\ ~FilepathDiffers
    /\ fStorage
    /\ fRaised = "ImproperlyConfigured"

\* ====================================================================
\* properties of wild_reverse (SpecReverse)
\* ====================================================================

Called == rResult # NoResult
CalledView == rViewname[Len(rViewname)]
CalledNamespaces == ResolveNamespaces(SubSeq(rViewname, 1, Len(rViewname) - 1), "root", <<>>)
\* the view name is a route name (not the dotted path of a view function,
\* which ends in the NameError of the missing get_callable import)
ByRouteName == ~(CalledView = ViewPath /\ rCandidates # <<>>)
\* the view name is registered: its namespaces are, and the name in them
Registered == CalledNamespaces.ok /\ CalledView = ViewName /\ rCandidates # <<>>
\* the parameters the named route requires: those of the pattern
\* reverse_dict[name] yields, its optional group left out
RouteParams == Possibilities(rCandidates[Len(rCandidates)])[1]
ValuesMatch == \A k \in DOMAIN rKwargs : Matches(k, rKwargs[k])

Accepted ==
    {P \in UNION {{Possibilities(rCandidates[i])[j] : j \in 1..Len(Possibilities(rCandidates[i]))} :
                  i \in DOMAIN rCandidates} : P \subseteq DOMAIN rKwargs}

\* C8: with several patterns of differing parameters under the name, the
\* call succeeds if any of them has all its parameters among the kwargs,
\* and the kwargs handed on are the largest subset some pattern accepts.
WildReverseUsesMostKwargs ==
    (Called /\ Registered /\ ValuesMatch /\ Accepted # {}
            /\ \E i, j \in DOMAIN rCandidates : rCandidates[i].req # rCandidates[j].req) =>
        /\ rResult.kind = "url"
        /\ DOMAIN rOkKwargs \in Accepted
        /\ \A P \in Accepted : Cardinality(P) <= Cardinality(DOMAIN rOkKwargs)

\* ====================================================================
\* properties of ProgressMixin (SpecProgress)
\* ====================================================================

\* the progress lines among the writes after the first n
LinesAfter(written, n) ==
    {i \in (n + 1)..Len(written) : written[i].text = "\\r{item}/{total} [{percentage}%]"}

\* C9: once execute() ran with no_progress true, progress(x, total) writes
\* nothing, whatever x and total; with no_progress false each call writes
\* one carriage-return-prefixed progress line; execute() hands the options
\* on without 'no_progress'.
ProgressSuppressedElseWritten ==
    [][/\ (\E x \in 0..MaxTotal, total \in 0..MaxTotal : Progress(x, total)) =>
              IF no_progress THEN stderr' = stderr
              ELSE Cardinality(LinesAfter(stderr', Len(stderr))) = 1
       /\ (\E options \in Options : Execute(options) /\ pRaised' = None) =>
              (pDelegated'.called /\ "no_progress" \notin DOMAIN pDelegated'.options)
      ]_vars

\* C9, without its one failing case: the same, for calls with total # 0
\* where the flag is off
ProgressSuppressedElseWrittenNonzero ==
    [][/\ (\E x \in 0..MaxTotal, total \in 0..MaxTotal : Progress(x, total)) =>
              IF no_progress THEN stderr' = stderr /\ pRaised' = None
              ELSE \/ Cardinality(LinesAfter(stderr', Len(stderr))) = 1
                   \/ pRaised' = "ZeroDivisionError" /\ stderr' = stderr
       /\ (\E options \in Options : Execute(options) /\ pRaised' = None) =>
              (pDelegated'.called /\ "no_progress" \notin DOMAIN pDelegated'.options)
      ]_vars

====
